---- MODULE Spec2Model ----
(***************************************************************************)
(* Model of internal/pipeline/engine.go: Runner.Run drives one Pipeline    *)
(* through Gather, then bounded attempts of Prompt -> Client.Chat ->       *)
(* Verify, then Apply.  Every call the Runner makes to the pipeline or the *)
(* client is one action; what the callee returns is a nondeterministic     *)
(* input.  Strings are sequences of characters; the literals "REFINE:" and *)
(* "<empty>" are single symbols that no input contains.                    *)
(***************************************************************************)
EXTENDS Integers, Sequences, FiniteSets, TLC

\* Largest MaxAttempts option the model draws (smallest is -1).
MaxAttemptsBound == 3

\* ---------------------------------------------------------------- inputs
\* An error value: its message, the message of the error it wraps, and the
\* attempt transcript it carries.  NoErr is the nil error.
Err(msg, cause, transcript) == [msg |-> msg, cause |-> cause, transcript |-> transcript]
NoErr == Err("nil", "", <<>>)
\* The error value a collaborator (pipeline stage or client) may return.
CallErr == Err("e1", "", <<>>)
\* What Prompt may put in LLMRequest.UserPrompt.
BasePrompts == { <<"h", "\n">>, <<>> }
\* What Client.Chat may put in LLMResponse.RawText.
Responses == { "r1", "r2" }
\* What Verify may put in RefineRequest.UserPromptDelta.
Deltas == { <<"x">>, <<" ", "y", "\n">>, <<" ">> }
\* What Verify may put in RefineRequest.Reason.
Reasons == { "invalid-structure" }
\* Verified outputs (opaque payloads) and "nil".
NoOut == "nilOut"
Outs == { "v1", "v2" }
\* *RefineRequest: the nil pointer, or a pointer to a request.
NoRefine == [isNil |-> TRUE, UserPromptDelta |-> <<>>, Reason |-> ""]
RefineRequests == [isNil : {FALSE}, UserPromptDelta : Deltas, Reason : Reasons]
ZeroReport == [DryRun |-> FALSE, Summary |-> "", NumActions |-> 0]
Reports == { ZeroReport, [DryRun |-> TRUE, Summary |-> "ok", NumActions |-> 1] }
NoResponse == ""

\* ------------------------------------------------------- string helpers
RECURSIVE TrimLeftIn(_, _)
TrimLeftIn(s, cut) ==
    IF s # <<>> /\ Head(s) \in cut THEN TrimLeftIn(Tail(s), cut) ELSE s

RECURSIVE TrimRightIn(_, _)
TrimRightIn(s, cut) ==
    IF s # <<>> /\ s[Len(s)] \in cut
    THEN TrimRightIn(SubSeq(s, 1, Len(s) - 1), cut)
    ELSE s

\* strings.TrimSpace
TrimSpace(s) == TrimRightIn(TrimLeftIn(s, {" ", "\n"}), {" ", "\n"})

\* ------------------------------------------------------ engine helpers
max(a, b) == IF a > b THEN a ELSE b

appendRefine(original, refine) ==
    LET trimmedOriginal == TrimRightIn(original, {"\n"})
    IN  IF trimmedOriginal = <<>> THEN refine
        ELSE trimmedOriginal \o <<"\n", "\n">> \o refine

formatRefine(delta) ==
    LET trimmed == TrimSpace(delta)
    IN  IF trimmed = <<>> THEN <<"REFINE:", "\n", "<empty>">>
        ELSE <<"REFINE:", "\n">> \o trimmed

\* truncate(s, n): the first n characters and an ellipsis when s is longer
truncate(s, n) == IF Len(s) <= n THEN s ELSE SubSeq(s, 1, n) \o <<"...">>

\* One block of the failure transcript per attempt record.
renderAttempt(a) ==
    [ UserPrompt |-> truncate(a.Request, 1200),
      Response   |-> a.Response,
      Refine     |-> IF a.Refine = NoRefine THEN NoRefine
                     ELSE [ a.Refine EXCEPT
                              !.UserPromptDelta = truncate(a.Refine.UserPromptDelta, 600) ],
      Status     |-> IF a.Accepted THEN "accepted" ELSE "rejected" ]

renderAttemptDebug(attempts, last) ==
    IF Len(attempts) = 0
    THEN << [ UserPrompt |-> <<>>, Response |-> last, Refine |-> NoRefine,
              Status |-> "last response" ] >>
    ELSE [ i \in 1..Len(attempts) |-> renderAttempt(attempts[i]) ]

\* pc is the position of Run: "Gathering", "Prompting", "Awaiting" and
\* "Verifying" are the calls to Gather, Prompt, Client.Chat and Verify about
\* to be made; "Refining" is the loop's back edge (the refine is recorded and
\* the loop condition held); "Accepted" is the break out of the loop;
\* "Applying" is the call to Apply; "Returned" is the return of Apply's
\* result and "Failed" every return of an error made by Run itself.
VARIABLES
    MaxAttempts,    \* r.Options.MaxAttempts
    pc,             \* position of Run
    attempt,        \* loop counter
    req,            \* req.UserPrompt of the current attempt
    lastResponse,
    verified,
    accepted,
    pendingRefine,
    attemptLogs,
    result,         \* what Run returned: <<[report, err]>>, empty before
    \* history of what Run did and was handed
    calls,          \* every call made, in order: callee and what it returned
    sent,           \* UserPrompt of every request handed to Client.Chat
    deltas,         \* UserPromptDelta of every rejection with guidance
    acceptOut,      \* verified output returned by the Verify call that accepted
    applyArg,       \* argument of every Apply call
    applyRet        \* what every Apply call returned

vars == << MaxAttempts, pc, attempt, req, lastResponse, verified, accepted,
           pendingRefine, attemptLogs, result, calls, sent, deltas,
           acceptOut, applyArg, applyRet >>

\* State of one RunBatches call (tasks/sort/batch.go).  A Run issued by
\* processBatch is one step there; what the Run returns is an input.
VARIABLES
    files,          \* inventory the prototype's Gather returns, in order
    batchSize,      \* argument batchSize
    protoTokens,    \* prototype.completionTokens
    bpc,            \* position of RunBatches
    batches,        \* chunkFileMetas(files, batchSize)
    index,          \* loop index over batches (0-based, as in the code)
    totalActions,
    dryRun,
    sawBatch,
    defaults,       \* defaults.Grant.Safety.DryRun
    stack,          \* active processBatch calls, innermost last
    ret,            \* <<[report, err]>> a processBatch call has just returned
    bresult,        \* what RunBatches returned: <<[report, err]>>, empty before
    nextTask,       \* number of clones made so far
    runs,           \* every Run issued, in order: its task, input and result
    procs           \* every processBatch call that has returned, in order

bvars == << files, batchSize, protoTokens, bpc, batches, index, totalActions,
            dryRun, sawBatch, defaults, stack, ret, bresult, nextTask, runs,
            procs >>

\* The sort task as the command line configures it before RunBatches
\* (cmd/llm-tasks/task_run.go), and what each clone's Gather and Verify then
\* work with.
VARIABLES
    overrides,      \* prototype's overrideDownloads, overrideStaging, dryRunOverride
    cfgFile,        \* what cfgProv.Load() returns: the configuration file
    opc,            \* position of runTaskCommand
    gathers         \* every Gather of a clone, in order: the roots and flag it set

ovars == << overrides, cfgFile, opc, gathers >>

\* *bool: nil, or a pointer to value
NilFlag == [isNil |-> TRUE, value |-> FALSE]
FlagOf(b) == [isNil |-> FALSE, value |-> b]

\* no override is set on the prototype
NoOverrides == [downloads |-> <<>>, staging |-> <<>>, dry |-> NilFlag]

\* runTaskCommand is not running: RunBatches gets a task without overrides
OverrideIdle ==
    /\ overrides = NoOverrides
    /\ cfgFile = [Downloads |-> <<>>, Staging |-> <<>>, DryRun |-> FALSE]
    /\ opc = "idle"
    /\ gathers = <<>>

\* No RunBatches call is active.
BatchIdle ==
    /\ files = <<>>
    /\ batchSize = 0
    /\ protoTokens = 0
    /\ bpc = "idle"
    /\ batches = <<>>
    /\ index = 0
    /\ totalActions = 0
    /\ dryRun = TRUE
    /\ sawBatch = FALSE
    /\ defaults = FALSE
    /\ stack = <<>>
    /\ ret = <<>>
    /\ bresult = <<>>
    /\ nextTask = 0
    /\ runs = <<>>
    /\ procs = <<>>

Init ==
    /\ MaxAttempts \in -1..MaxAttemptsBound
    /\ pc = "Gathering"
    /\ attempt = 0
    /\ req = <<>>
    /\ lastResponse = NoResponse
    /\ verified = NoOut
    /\ accepted = FALSE
    /\ pendingRefine = <<>>
    /\ attemptLogs = <<>>
    /\ result = <<>>
    /\ calls = <<>>
    /\ sent = <<>>
    /\ deltas = <<>>
    /\ acceptOut = NoOut
    /\ applyArg = <<>>
    /\ applyRet = <<>>
    /\ BatchIdle
    /\ OverrideIdle

\* One entry of the call history.
Call(op, err, ok, guided) == [op |-> op, err |-> err, ok |-> ok, guided |-> guided]

\* fmt.Errorf("<stage>: %w", err)
Wrap(stage, err) == Err(stage, err.msg, <<>>)

\* return ApplyReport{}, err
Fail(err) ==
    /\ pc' = "Failed"
    /\ result' = << [report |-> ZeroReport, err |-> err] >>

\* the error of Gather is dropped
GatherFails_Never(gatherErr) == FALSE

\* if gatherErr != nil
GatherFails(gatherErr) == gatherErr # NoErr

\* the error of Prompt is dropped
PromptFails_Never(reqErr) == FALSE

\* if reqErr != nil
PromptFails(reqErr) == reqErr # NoErr

\* the error of Chat is dropped
ChatFails_Never(chatErr) == FALSE

\* if chatErr != nil
ChatFails(chatErr) == chatErr # NoErr

\* one attempt too many
LoopContinues_OffByOne(att) == att <= max(1, MaxAttempts) + 1

\* for ...; attempt <= max(1, r.Options.MaxAttempts); ...
LoopContinues(att) == att <= max(1, MaxAttempts)

\* if strings.TrimSpace(pendingRefine) != "" { req.UserPrompt = appendRefine(...) }
BuildRequest(base, pending) ==
    IF TrimSpace(pending) # <<>> THEN appendRefine(base, pending) ELSE base

\* the refine request is tested before the accepted flag
VerifyDecision_RefineFirst(ok, refine, verErr) ==
    IF verErr # NoErr THEN "verifyError"
    ELSE IF refine # NoRefine THEN "refine"
    ELSE IF ok THEN "accept"
    ELSE "noRefine"

\* the accepted flag is tested before the error
VerifyDecision_OkFirst(ok, refine, verErr) ==
    IF ok THEN "accept"
    ELSE IF verErr # NoErr THEN "verifyError"
    ELSE IF refine = NoRefine THEN "noRefine"
    ELSE "refine"

\* The chain of tests on what Verify returned.
VerifyDecision(ok, refine, verErr) ==
    IF verErr # NoErr THEN "verifyError"
    ELSE IF ok THEN "accept"
    ELSE IF refine = NoRefine THEN "noRefine"
    ELSE "refine"

\* the test after the loop is missing
Exhausted_Never(acc) == FALSE

\* if !accepted (after the loop)
Exhausted(acc) == ~acc

ExhaustedErr(logs, last) ==
    Err("exhausted attempts without acceptance", "", renderAttemptDebug(logs, last))

\* the report is dropped when Apply failed
RunResult_ZeroOnErr(report, applyErr) ==
    [report |-> IF applyErr # NoErr THEN ZeroReport ELSE report, err |-> applyErr]

\* return report, applyErr
RunResult(report, applyErr) == [report |-> report, err |-> applyErr]

\* gathered, gatherErr := p.Gather(ctx)
Gather ==
    /\ pc = "Gathering"
    /\ \E gatherErr \in {NoErr, CallErr} :
        /\ calls' = Append(calls, Call("Gather", gatherErr, FALSE, FALSE))
        /\ IF GatherFails(gatherErr)
           THEN /\ Fail(Wrap("gather", gatherErr))
                /\ UNCHANGED attempt
           ELSE /\ pc' = "Prompting"
                /\ attempt' = 1
                /\ UNCHANGED result
    /\ UNCHANGED << MaxAttempts, req, lastResponse, verified, accepted,
                    pendingRefine, attemptLogs, sent, deltas, acceptOut,
                    applyArg, applyRet >>
    /\ UNCHANGED << bvars, ovars >>

\* req, reqErr := p.Prompt(ctx, gathered), then the pending refine is appended
Prompt ==
    /\ pc = "Prompting"
    /\ \E out \in {[p |-> b, err |-> NoErr] : b \in BasePrompts}
                    \cup {[p |-> <<>>, err |-> CallErr]} :
        /\ calls' = Append(calls, Call("Prompt", out.err, FALSE, FALSE))
        /\ IF PromptFails(out.err)
           THEN /\ Fail(Wrap("prompt", out.err))
                /\ UNCHANGED req
           ELSE /\ req' = BuildRequest(out.p, pendingRefine)
                /\ pc' = "Awaiting"
                /\ UNCHANGED result
    /\ UNCHANGED << MaxAttempts, attempt, lastResponse, verified, accepted,
                    pendingRefine, attemptLogs, sent, deltas, acceptOut,
                    applyArg, applyRet >>
    /\ UNCHANGED << bvars, ovars >>

\* resp, chatErr := r.Client.Chat(attemptCtx, req)
Chat ==
    /\ pc = "Awaiting"
    /\ \E out \in {[resp |-> r, err |-> NoErr] : r \in Responses}
                    \cup {[resp |-> NoResponse, err |-> CallErr]} :
        /\ calls' = Append(calls, Call("Chat", out.err, FALSE, FALSE))
        /\ sent' = Append(sent, req)
        /\ IF ChatFails(out.err)
           THEN /\ Fail(Wrap("llm chat", out.err))
                /\ UNCHANGED lastResponse
           ELSE /\ lastResponse' = out.resp
                /\ pc' = "Verifying"
                /\ UNCHANGED result
    /\ UNCHANGED << MaxAttempts, attempt, req, verified, accepted,
                    pendingRefine, attemptLogs, deltas, acceptOut,
                    applyArg, applyRet >>
    /\ UNCHANGED << bvars, ovars >>

\* ok, out, refine, verErr := p.Verify(ctx, gathered, resp) and the rest of
\* the loop body, the loop's post statement and its condition
Verify ==
    /\ pc = "Verifying"
    /\ \E ok \in BOOLEAN, out \in Outs \cup {NoOut},
          refine \in RefineRequests \cup {NoRefine}, verErr \in {NoErr, CallErr} :
        LET record == [Request |-> req, Response |-> lastResponse,
                       Refine |-> NoRefine, Accepted |-> FALSE]
            decision == VerifyDecision(ok, refine, verErr)
        IN
        /\ calls' = Append(calls, Call("Verify", verErr, ok, refine # NoRefine))
        /\ acceptOut' = IF ok /\ verErr = NoErr /\ acceptOut = NoOut
                        THEN out ELSE acceptOut
        /\ deltas' = IF ~ok /\ verErr = NoErr /\ refine # NoRefine
                     THEN Append(deltas, refine.UserPromptDelta) ELSE deltas
        /\ CASE decision = "verifyError" ->
                  /\ Fail(Wrap("verify", verErr))
                  /\ UNCHANGED << attempt, verified, accepted, pendingRefine,
                                  attemptLogs >>
             [] decision = "accept" ->
                  /\ attemptLogs' = Append(attemptLogs, [record EXCEPT !.Accepted = TRUE])
                  /\ accepted' = TRUE
                  /\ verified' = out
                  /\ pc' = "Accepted"
                  /\ UNCHANGED << attempt, pendingRefine, result >>
             [] decision = "noRefine" ->
                  /\ attemptLogs' = Append(attemptLogs, record)
                  /\ Fail(Err("verify rejected result and no refine request provided", "", <<>>))
                  /\ UNCHANGED << attempt, verified, accepted, pendingRefine >>
             [] decision = "refine" ->
                  /\ attemptLogs' = Append(attemptLogs, [record EXCEPT !.Refine = refine])
                  /\ pendingRefine' = formatRefine(refine.UserPromptDelta)
                  /\ attempt' = attempt + 1
                  /\ IF LoopContinues(attempt + 1)
                     THEN pc' = "Refining" /\ UNCHANGED result
                     ELSE IF Exhausted(accepted)
                          THEN Fail(ExhaustedErr(attemptLogs', lastResponse))
                          ELSE pc' = "Applying" /\ UNCHANGED result
                  /\ UNCHANGED << verified, accepted >>
    /\ UNCHANGED << MaxAttempts, req, lastResponse, sent, applyArg, applyRet >>
    /\ UNCHANGED << bvars, ovars >>

\* the loop's back edge: the condition held, the body starts again
Refine ==
    /\ pc = "Refining"
    /\ pc' = "Prompting"
    /\ UNCHANGED << MaxAttempts, attempt, req, lastResponse, verified, accepted,
                    pendingRefine, attemptLogs, result, calls, sent, deltas,
                    acceptOut, applyArg, applyRet >>
    /\ UNCHANGED << bvars, ovars >>

\* break, then the test after the loop
Accept ==
    /\ pc = "Accepted"
    /\ IF Exhausted(accepted)
       THEN Fail(ExhaustedErr(attemptLogs, lastResponse))
       ELSE pc' = "Applying" /\ UNCHANGED result
    /\ UNCHANGED << MaxAttempts, attempt, req, lastResponse, verified, accepted,
                    pendingRefine, attemptLogs, calls, sent, deltas,
                    acceptOut, applyArg, applyRet >>
    /\ UNCHANGED << bvars, ovars >>

\* report, applyErr := p.Apply(ctx, verified); return report, applyErr
Apply ==
    /\ pc = "Applying"
    /\ \E report \in Reports, applyErr \in {NoErr, CallErr} :
        /\ calls' = Append(calls, Call("Apply", applyErr, FALSE, FALSE))
        /\ applyArg' = Append(applyArg, verified)
        /\ applyRet' = Append(applyRet, [report |-> report, err |-> applyErr])
        /\ result' = << RunResult(report, applyErr) >>
        /\ pc' = "Returned"
    /\ UNCHANGED << MaxAttempts, attempt, req, lastResponse, verified, accepted,
                    pendingRefine, attemptLogs, sent, deltas, acceptOut >>
    /\ UNCHANGED << bvars, ovars >>

Next == Gather \/ Prompt \/ Chat \/ Verify \/ Refine \/ Accept \/ Apply

Spec == Init /\ [][Next]_<< vars, bvars, ovars >>

\* ===================================================== Batch Executor
\* Largest inventory the model draws.
MaxUnits == 3

\* the first two budgets are swapped
fallbacks_Swapped == << 1024, 768, 1280, 1536, 1792 >>

DefaultBatchSize == 1
sortCompletionMaxTokens == 768
\* a sixth budget follows the five
fallbacks_Six == << 768, 1024, 1280, 1536, 1792, 2048 >>

fallbacks == << 768, 1024, 1280, 1536, 1792 >>

\* Values of prototype.completionTokens the model draws (0: never set).
ProtoTokens == { 0, 512 }

\* An error of the batch layer: the fragments of its message in order, and
\* the diagnostic records annotateLLMError appended.  The nil error is empty.
NoBErr == [text |-> <<>>, context |-> <<>>]
BErr(text) == [text |-> text, context |-> <<>>]

\* The JSON member a truncated completion carries in the response body the
\* client quotes in its error, as the service prints it.
FinishLengthSpaced == "\"finish_reason\": \"length\""
FinishLengthTight == "\"finish_reason\":\"length\""

\* fmt.Errorf("<prefix>%w", err)
Prefixed(prefix, err) == [err EXCEPT !.text = prefix \o err.text]

\* the report returned with an error counts one action
ZeroBReport_OneAction == [DryRun |-> FALSE, Summary |-> <<>>, NumActions |-> 1]

ZeroBReport == [DryRun |-> FALSE, Summary |-> <<>>, NumActions |-> 0]

\* What one Runner.Run over a sort Task may come to: it applies the plan,
\* or fails in Gather, or in Client.Chat with or without a truncated
\* completion, or Verify rejects a cut-off response on every attempt, or
\* Apply fails at a move; dry is the DryRun flag the task's configuration
\* carries.
RunOutcomes ==
    [kind : {"ok"}, dry : BOOLEAN]
        \cup [kind : {"length", "chat", "gather", "rejected", "apply"}, dry : {FALSE}]

\* The error of a Run whose only attempt Verify rejected as invalid JSON:
\* the message and the transcript renderAttemptDebug prints for the attempt.
RejectedErr(t) ==
    BErr(<< "exhausted attempts without acceptance", "\n", "Attempt 1:\n",
            "  MaxTokens: ", ToString(t.completionTokens),
            "\n  Response:\n", "    {\"sorted_files\": [{\"file_name\": \"a",
            "\n  Refine Reason: ", "invalid-json", "\n  Status: rejected" >>)

\* *Task: the fields the batch layer reads and writes
prototype ==
    [id |-> 0, completionTokens |-> protoTokens, preloadedInventory |-> <<>>,
     lastRequest |-> 0,
     overrideDownloads |-> overrides.downloads,
     overrideStaging |-> overrides.staging,
     dryRunOverride |-> overrides.dry,
     downloadsRoot |-> <<>>, stagingRoot |-> <<>>, currentDryRun |-> FALSE]

\* &Task{fs, cfgProv, completionTokens} and the preloaded inventory: every
\* other field of the clone has its zero value
Clone(t, id) ==
    [id |-> id, completionTokens |-> t.completionTokens,
     preloadedInventory |-> IF Len(t.preloadedInventory) > 0
                            THEN t.preloadedInventory ELSE <<>>,
     lastRequest |-> 0,
     overrideDownloads |-> <<>>, overrideStaging |-> <<>>,
     dryRunOverride |-> NilFlag,
     downloadsRoot |-> <<>>, stagingRoot |-> <<>>, currentDryRun |-> FALSE]

Preload(t, units) == [t EXCEPT !.preloadedInventory = units]

SetCompletionTokens(t, tokens) ==
    IF tokens > 0 THEN [t EXCEPT !.completionTokens = tokens] ELSE t

\* the preloaded units are ignored
TaskGather_Inventory(t) == files

\* Task.Gather: the preloaded units when there are any, else the inventory
TaskGather(t) ==
    IF Len(t.preloadedInventory) > 0 THEN t.preloadedInventory ELSE files

\* applyMovePlan: one action per file of the plan, and the summary line
applyMovePlan(gathered, dry) ==
    [DryRun |-> dry,
     Summary |-> << "sort: ", ToString(Len(gathered)), " actions (",
                    IF dry THEN "dry-run" ELSE "applied", ")" >>,
     NumActions |-> Len(gathered)]

\* runner.Run(ctx, task): the task after the Run, what its Gather handed to
\* the Run, and the (report, error) returned
RunTask(t, o) ==
    LET gathered == IF o.kind = "gather" THEN <<>> ELSE TaskGather(t)
        prompted == [t EXCEPT !.lastRequest = t.completionTokens,
                              !.preloadedInventory = <<>>]
    IN  CASE o.kind = "ok" ->
               [task |-> prompted, gathered |-> gathered, applied |-> gathered,
                report |-> applyMovePlan(gathered, o.dry), err |-> NoBErr]
          [] o.kind = "length" ->
               [task |-> prompted, gathered |-> gathered, applied |-> <<>>,
                report |-> ZeroBReport,
                err |-> BErr(<< "llm chat: ", "chat completion returned empty message ",
                                FinishLengthSpaced >>)]
          [] o.kind = "chat" ->
               [task |-> prompted, gathered |-> gathered, applied |-> <<>>,
                report |-> ZeroBReport,
                err |-> BErr(<< "llm chat: ", "llm http error 500" >>)]
          [] o.kind = "rejected" ->
               [task |-> prompted, gathered |-> gathered, applied |-> <<>>,
                report |-> ZeroBReport, err |-> RejectedErr(t)]
          [] o.kind = "apply" ->
               [task |-> prompted, gathered |-> gathered, applied |-> gathered,
                report |-> ZeroBReport, err |-> BErr(<< "move file: permission denied" >>)]
          [] o.kind = "gather" ->
               [task |-> t, gathered |-> gathered, applied |-> <<>>,
                report |-> ZeroBReport,
                err |-> BErr(<< "gather: ", "load sort config" >>)]

RECURSIVE chunkFrom(_, _, _)
chunkFrom(units, size, start) ==
    IF start >= Len(units) THEN <<>>
    ELSE LET end == IF start + size > Len(units) THEN Len(units) ELSE start + size
         IN  << SubSeq(units, start + 1, end) >> \o chunkFrom(units, size, start + size)

\* the flags are joined with "or"
mergeReports_AnyDry(left, right) ==
    [DryRun |-> left.DryRun \/ right.DryRun,
     Summary |-> TrimSpace(left.Summary) \o << "; " >> \o TrimSpace(right.Summary),
     NumActions |-> left.NumActions + right.NumActions]

\* a trailing batch shorter than size is dropped
chunkFileMetas_DropShort(units, size) ==
    IF Len(units) = 0 THEN <<>>
    ELSE SelectSeq(chunkFrom(units, IF size <= 0 THEN 1 ELSE size, 0),
                   LAMBDA b : Len(b) = IF size <= 0 THEN 1 ELSE size)

chunkFileMetas(units, size) ==
    IF Len(units) = 0 THEN <<>>
    ELSE chunkFrom(units, IF size <= 0 THEN 1 ELSE size, 0)

mergeReports(left, right) ==
    [DryRun |-> left.DryRun /\ right.DryRun,
     Summary |-> TrimSpace(left.Summary) \o << "; " >> \o TrimSpace(right.Summary),
     NumActions |-> left.NumActions + right.NumActions]

\* every failure is taken for a truncated completion
isLengthError_Always(err) == err # NoBErr

isLengthError(err) ==
    /\ err # NoBErr
    /\ \E i \in DOMAIN err.text : err.text[i] \in {FinishLengthSpaced, FinishLengthTight}

\* the files of the batch are left out of the diagnostic
annotateLLMError_NoFiles(err, stage, task, batch) ==
    [err EXCEPT !.text = err.text \o << "; context=" >>,
                !.context = Append(err.context,
                    [Stage |-> stage, MaxTokens |-> task.lastRequest, Files |-> << >>])]

\* the error is replaced by the diagnostic instead of being wrapped
annotateLLMError_Unwrapped(err, stage, task, batch) ==
    [text |-> << "; context=" >>,
     context |-> Append(err.context,
                    [Stage |-> stage, MaxTokens |-> task.lastRequest, Files |-> batch])]

\* the diagnostic record: stage, the request the task captured, the files
annotateLLMError(err, stage, task, batch) ==
    [err EXCEPT !.text = err.text \o << "; context=" >>,
                !.context = Append(err.context,
                    [Stage |-> stage, MaxTokens |-> task.lastRequest, Files |-> batch])]

\* batch[:mid] and batch[mid:] with mid := len(batch) / 2, in the order in
\* which processBatch hands them to its recursive calls
\* the right half is processed first
splitBatch_RightFirst(batch) ==
    << SubSeq(batch, Len(batch) \div 2 + 1, Len(batch)),
       SubSeq(batch, 1, Len(batch) \div 2) >>

\* the left half keeps the unit at mid as well
splitBatch_Overlap(batch) ==
    << SubSeq(batch, 1, Len(batch) \div 2 + 1),
       SubSeq(batch, Len(batch) \div 2 + 1, Len(batch)) >>

\* the last unit of a batch of three or more is in neither half
splitBatch_DropLast(batch) ==
    << SubSeq(batch, 1, Len(batch) \div 2),
       SubSeq(batch, Len(batch) \div 2 + 1,
              IF Len(batch) > 2 THEN Len(batch) - 1 ELSE Len(batch)) >>

splitBatch(batch) ==
    << SubSeq(batch, 1, Len(batch) \div 2),
       SubSeq(batch, Len(batch) \div 2 + 1, Len(batch)) >>

\* the merged report never counts as a recovery
mergedRecovers_Never(merged) == FALSE

\* if merged.NumActions > 0
mergedRecovers(merged) == merged.NumActions > 0

\* One active processBatch call.
Frame(batch) ==
    [batch |-> batch, stage |-> "initial", fb |-> 0,
     task |-> prototype, err |-> NoBErr, left |-> ZeroBReport]

Top == stack[Len(stack)]
Pop == SubSeq(stack, 1, Len(stack) - 1)
SetTop(f) == [stack EXCEPT ![Len(stack)] = f]
Returns(report, err) == << [report |-> report, err |-> err] >>

\* return report, err from the innermost processBatch call
Return(report, err) ==
    /\ ret' = Returns(report, err)
    /\ stack' = Pop
    /\ procs' = Append(procs, [batch |-> Top.batch, top |-> index + 1,
                                depth |-> Len(stack), report |-> report, err |-> err])

\* One entry of the Run history.
RunEntry(t, r, stage) ==
    [task |-> t.id, tokens |-> t.completionTokens,
     preloaded |-> t.preloadedInventory, gathered |-> r.gathered,
     applied |-> r.applied, report |-> r.report, err |-> r.err, top |-> index + 1,
     depth |-> Len(stack), stage |-> stage, batch |-> Top.batch]

BatchInit ==
    /\ MaxAttempts = 1
    /\ pc = "Gathering"
    /\ attempt = 0
    /\ req = <<>>
    /\ lastResponse = NoResponse
    /\ verified = NoOut
    /\ accepted = FALSE
    /\ pendingRefine = <<>>
    /\ attemptLogs = <<>>
    /\ result = <<>>
    /\ calls = <<>>
    /\ sent = <<>>
    /\ deltas = <<>>
    /\ acceptOut = NoOut
    /\ applyArg = <<>>
    /\ applyRet = <<>>
    /\ \E n \in 0..MaxUnits : files = [i \in 1..n |-> i]
    /\ batchSize \in 0..MaxUnits
    /\ protoTokens \in ProtoTokens
    /\ bpc = "start"
    /\ batches = <<>>
    /\ index = 0
    /\ totalActions = 0
    /\ dryRun = TRUE
    /\ sawBatch = FALSE
    /\ defaults = FALSE
    /\ stack = <<>>
    /\ ret = <<>>
    /\ bresult = <<>>
    /\ nextTask = 0
    /\ runs = <<>>
    /\ procs = <<>>
    /\ OverrideIdle

\* The flag of the loaded configuration; RunBatches reads it only when no
\* batch was processed, so one value stands for both when there are files.
LoadedDryRun == IF Len(files) = 0 THEN BOOLEAN ELSE {FALSE}

\* RunBatches up to its loop: the inventory is gathered on a clone, chunked,
\* and the configuration is loaded
StartBatches ==
    /\ bpc = "start"
    /\ nextTask' = nextTask + 1
    /\ \E gatherFails \in BOOLEAN, cfgFails \in BOOLEAN,
          cfgDryRun \in LoadedDryRun :
        IF gatherFails
        THEN /\ bresult' = Returns(ZeroBReport,
                              Prefixed(<< "gather inventory: " >>, BErr(<< "inventory" >>)))
             /\ bpc' = "done"
             /\ UNCHANGED << batches, defaults >>
        ELSE /\ batches' = chunkFileMetas(TaskGather(Clone(prototype, nextTask + 1)),
                                          IF batchSize <= 0 THEN DefaultBatchSize
                                          ELSE batchSize)
             /\ IF cfgFails
                THEN /\ bresult' = Returns(ZeroBReport,
                              Prefixed(<< "load sort config: " >>, BErr(<< "config" >>)))
                     /\ bpc' = "done"
                     /\ UNCHANGED defaults
                ELSE /\ defaults' = cfgDryRun
                     /\ bpc' = "loop"
                     /\ UNCHANGED bresult
    /\ UNCHANGED << files, batchSize, protoTokens, index, totalActions, dryRun,
                    sawBatch, stack, ret, runs, procs >>
    /\ UNCHANGED << vars, ovars >>

\* for index, batch := range batches: the call of processBatch
EnterBatch ==
    /\ bpc = "loop"
    /\ index < Len(batches)
    /\ IF Len(batches[index + 1]) = 0
       THEN /\ index' = index + 1
            /\ UNCHANGED << bpc, stack >>
       ELSE /\ stack' = << Frame(batches[index + 1]) >>
            /\ bpc' = "process"
            /\ UNCHANGED index
    /\ UNCHANGED << files, batchSize, protoTokens, batches, totalActions, dryRun,
                    sawBatch, defaults, ret, bresult, nextTask, runs, procs >>
    /\ UNCHANGED << vars, ovars >>

\* processBatch up to the outcome of its first Run
RunInitial ==
    /\ bpc = "process"
    /\ stack # <<>>
    /\ Top.stage = "initial"
    /\ ret = <<>>
    /\ \E o \in RunOutcomes :
        LET batch == Top.batch
            maxTokens == IF prototype.completionTokens <= 0
                         THEN sortCompletionMaxTokens
                         ELSE prototype.completionTokens
            task == SetCompletionTokens(
                        Preload(Clone(prototype, nextTask + 1), batch), maxTokens)
            r == RunTask(task, o)
        IN
        /\ nextTask' = nextTask + 1
        /\ runs' = Append(runs, RunEntry(task, r, 0))
        /\ IF r.err = NoBErr
           THEN Return(r.report, NoBErr)
           ELSE IF ~isLengthError(r.err)
           THEN Return(ZeroBReport,
                       annotateLLMError(r.err, << "initial" >>, r.task, batch))
           ELSE IF Len(batch) > 1
           THEN /\ stack' = Append(SetTop([Top EXCEPT !.stage = "left", !.task = r.task,
                                                      !.err = r.err]),
                                   Frame(splitBatch(batch)[1]))
                /\ UNCHANGED << ret, procs >>
           ELSE /\ stack' = SetTop([Top EXCEPT !.stage = "fallback", !.fb = 1,
                                               !.task = r.task, !.err = r.err])
                /\ UNCHANGED << ret, procs >>
    /\ UNCHANGED << files, batchSize, protoTokens, bpc, batches, index,
                    totalActions, dryRun, sawBatch, defaults, bresult >>
    /\ UNCHANGED << vars, ovars >>

\* the left half has returned: its error is returned, else the right half runs
ReturnLeft ==
    /\ bpc = "process"
    /\ stack # <<>>
    /\ Top.stage = "left"
    /\ ret # <<>>
    /\ IF ret[1].err # NoBErr
       THEN Return(ZeroBReport, ret[1].err)
       ELSE /\ stack' = Append(SetTop([Top EXCEPT !.stage = "right",
                                                  !.left = ret[1].report]),
                               Frame(splitBatch(Top.batch)[2]))
            /\ ret' = <<>>
            /\ UNCHANGED procs
    /\ UNCHANGED << files, batchSize, protoTokens, bpc, batches, index,
                    totalActions, dryRun, sawBatch, defaults, bresult, nextTask,
                    runs >>
    /\ UNCHANGED << vars, ovars >>

\* the right half has returned: its error is returned, else the halves are merged
ReturnRight ==
    /\ bpc = "process"
    /\ stack # <<>>
    /\ Top.stage = "right"
    /\ ret # <<>>
    /\ IF ret[1].err # NoBErr
       THEN Return(ZeroBReport, ret[1].err)
       ELSE LET merged == mergeReports(Top.left, ret[1].report)
            IN  IF mergedRecovers(merged)
                THEN Return(merged, NoBErr)
                ELSE /\ stack' = SetTop([Top EXCEPT !.stage = "fallback", !.fb = 1])
                     /\ ret' = <<>>
                     /\ UNCHANGED procs
    /\ UNCHANGED << files, batchSize, protoTokens, bpc, batches, index,
                    totalActions, dryRun, sawBatch, defaults, bresult, nextTask,
                    runs >>
    /\ UNCHANGED << vars, ovars >>

\* for _, tokens := range fallbacks: one Run, and the final error after the last
RunFallback ==
    /\ bpc = "process"
    /\ stack # <<>>
    /\ Top.stage = "fallback"
    /\ ret = <<>>
    /\ \E o \in RunOutcomes :
        LET batch == Top.batch
            tokens == fallbacks[Top.fb]
            fallbackTask == SetCompletionTokens(
                                Preload(Clone(prototype, nextTask + 1), batch), tokens)
            r == RunTask(fallbackTask, o)
        IN
        /\ nextTask' = nextTask + 1
        /\ runs' = Append(runs, RunEntry(fallbackTask, r, Top.fb))
        /\ IF r.err = NoBErr
           THEN Return(r.report, NoBErr)
           ELSE IF ~isLengthError(r.err)
           THEN Return(ZeroBReport,
                       annotateLLMError(r.err, << "fallback-", ToString(tokens) >>,
                                        r.task, batch))
           ELSE IF Top.fb < Len(fallbacks)
           THEN /\ stack' = SetTop([Top EXCEPT !.fb = Top.fb + 1])
                /\ UNCHANGED << ret, procs >>
           ELSE Return(ZeroBReport,
                       annotateLLMError(Top.err, << "final" >>, Top.task, batch))
    /\ UNCHANGED << files, batchSize, protoTokens, bpc, batches, index,
                    totalActions, dryRun, sawBatch, defaults, bresult >>
    /\ UNCHANGED << vars, ovars >>

\* the loop index is printed as it is
batchError_ZeroBased(idx, runErr) ==
    Prefixed(<< "batch ", ToString(idx), ": " >>, runErr)

\* fmt.Errorf("batch %d: %w", index+1, runErr)
batchError(idx, runErr) ==
    Prefixed(<< "batch ", ToString(idx + 1), ": " >>, runErr)

\* the flag of the last batch wins
andDryRun_Last(acc, report) == report.DryRun

\* dryRun = dryRun && report.DryRun
andDryRun(acc, report) == acc /\ report.DryRun

\* processBatch has returned to the loop of RunBatches
ReturnBatch ==
    /\ bpc = "process"
    /\ stack = <<>>
    /\ ret # <<>>
    /\ IF ret[1].err # NoBErr
       THEN /\ bresult' = Returns(ZeroBReport, batchError(index, ret[1].err))
            /\ bpc' = "done"
            /\ UNCHANGED << index, totalActions, dryRun, sawBatch >>
       ELSE /\ totalActions' = totalActions + ret[1].report.NumActions
            /\ dryRun' = andDryRun(dryRun, ret[1].report)
            /\ sawBatch' = TRUE
            /\ index' = index + 1
            /\ bpc' = "loop"
            /\ UNCHANGED bresult
    /\ ret' = <<>>
    /\ UNCHANGED << files, batchSize, protoTokens, batches, defaults, stack,
                    nextTask, runs, procs >>
    /\ UNCHANGED << vars, ovars >>

\* after the loop: the aggregated report
FinishBatches ==
    /\ bpc = "loop"
    /\ index >= Len(batches)
    /\ LET dry == IF ~sawBatch THEN defaults ELSE dryRun
       IN  /\ dryRun' = dry
           /\ bresult' = Returns(
                  [DryRun |-> dry,
                   Summary |-> << "sort: ", ToString(totalActions), " actions across ",
                                  ToString(Len(batches)), " batches" >>,
                   NumActions |-> totalActions], NoBErr)
    /\ bpc' = "done"
    /\ UNCHANGED << files, batchSize, protoTokens, batches, index, totalActions,
                    sawBatch, defaults, stack, ret, nextTask, runs, procs >>
    /\ UNCHANGED << vars, ovars >>

BatchNext ==
    \/ StartBatches \/ EnterBatch \/ RunInitial \/ ReturnLeft \/ ReturnRight
    \/ RunFallback \/ ReturnBatch \/ FinishBatches

BatchSpec == BatchInit /\ [][BatchNext]_<< vars, bvars, ovars >>

\* RunBatches is sequential code that runs on until it returns: a step that
\* can be taken is taken.
BatchFairSpec == BatchSpec /\ WF_<< vars, bvars, ovars >>(BatchNext)

\* ------------------------------------- the overrides of the command line
\* Directories are absolute, clean paths, which filepath.Abs and
\* filepath.Clean leave as they are; blanks around them are fragments.
ConfigDownloads == << "/config-downloads" >>
ConfigStaging == << "/config-staging" >>
CliDownloads == << "/cli-downloads" >>
CliStaging == << "/cli-staging" >>

\* the values of --source and --destination: absent, given, given with blanks
SourceOptions == { << >>, CliDownloads, << " " >> \o CliDownloads \o << " " >> }
DestinationOptions == { << >>, CliStaging, << " " >> \o CliStaging }

\* the configuration files cfgProv.Load() may return
ConfigFiles ==
    [Downloads : { ConfigDownloads, ConfigDownloads \o << " " >> },
     Staging : { ConfigStaging },
     DryRun : BOOLEAN]

\* fs.Inventory(root): two files in each directory
InventoryAt(root) ==
    IF root \in { ConfigDownloads, CliDownloads }
    THEN << [root |-> root, name |-> "a.txt"], [root |-> root, name |-> "b.txt"] >>
    ELSE << >>

normalizePath(pathValue) == TrimSpace(pathValue)

SetBaseDirectories(o, downloads, staging) ==
    [o EXCEPT !.downloads = IF TrimSpace(downloads) # << >>
                            THEN normalizePath(TrimSpace(downloads)) ELSE @,
              !.staging = IF TrimSpace(staging) # << >>
                          THEN normalizePath(TrimSpace(staging)) ELSE @]

SetDryRunOverride(o, dry) == [o EXCEPT !.dry = FlagOf(dry)]

\* nil when both directories are given and differ
validateBaseDirectories(sourceDir, destinationDir) ==
    /\ TrimSpace(sourceDir) # << >>
    /\ TrimSpace(destinationDir) # << >>
    /\ normalizePath(sourceDir) # normalizePath(destinationDir)

\* Task.Gather up to validateBaseDirectories: the configuration is loaded,
\* the task's overrides replace its values, the roots and the flag are set
GatherConfig(t, cfg) ==
    LET downloads == IF t.overrideDownloads # << >> THEN t.overrideDownloads
                     ELSE cfg.Downloads
        staging == IF t.overrideStaging # << >> THEN t.overrideStaging
                   ELSE cfg.Staging
        dry == IF ~t.dryRunOverride.isNil THEN t.dryRunOverride.value ELSE cfg.DryRun
    IN  [t EXCEPT !.downloadsRoot = TrimSpace(downloads),
                  !.stagingRoot = TrimSpace(staging),
                  !.currentDryRun = dry]

\* Task.Verify on a well-formed response: one move per file under the
\* task's staging root, and the task's flag
VerifyPlan(t, gathered) ==
    [Actions |-> [i \in DOMAIN gathered |->
                    [FromPath |-> gathered[i], ToRoot |-> t.stagingRoot]],
     DryRun |-> t.currentDryRun]

OverrideInit ==
    /\ MaxAttempts = 1
    /\ pc = "Gathering"
    /\ attempt = 0
    /\ req = <<>>
    /\ lastResponse = NoResponse
    /\ verified = NoOut
    /\ accepted = FALSE
    /\ pendingRefine = <<>>
    /\ attemptLogs = <<>>
    /\ result = <<>>
    /\ calls = <<>>
    /\ sent = <<>>
    /\ deltas = <<>>
    /\ acceptOut = NoOut
    /\ applyArg = <<>>
    /\ applyRet = <<>>
    /\ BatchIdle
    /\ overrides = NoOverrides
    /\ cfgFile \in ConfigFiles
    /\ opc = "cli"
    /\ gathers = <<>>

\* sortTask.SetBaseDirectories(sourceOverride, destinationOverride)
CliSetBaseDirectories ==
    /\ opc = "cli"
    /\ \E sortSource \in SourceOptions, sortDestination \in DestinationOptions :
          overrides' = SetBaseDirectories(overrides, TrimSpace(sortSource),
                                          TrimSpace(sortDestination))
    /\ opc' = "flag"
    /\ UNCHANGED << cfgFile, gathers >>
    /\ UNCHANGED << vars, bvars >>

\* if options.dryRunSet { sortTask.SetDryRunOverride(options.dryRun) }
CliSetDryRun ==
    /\ opc = "flag"
    /\ \E dryRunSet \in BOOLEAN, dry \in BOOLEAN :
          overrides' = IF dryRunSet THEN SetDryRunOverride(overrides, dry)
                       ELSE overrides
    /\ opc' = "inventory"
    /\ UNCHANGED << cfgFile, gathers >>
    /\ UNCHANGED << vars, bvars >>

\* RunBatches: inventoryTask := prototype.Clone(); inventoryTask.Gather(ctx)
GatherInventory ==
    /\ opc = "inventory"
    /\ LET inventoryTask == GatherConfig(Clone(prototype, 1), cfgFile)
       IN  IF ~validateBaseDirectories(inventoryTask.downloadsRoot,
                                       inventoryTask.stagingRoot)
           THEN opc' = "done" /\ UNCHANGED gathers
           ELSE /\ gathers' = << [task |-> inventoryTask,
                                  gathered |-> InventoryAt(inventoryTask.downloadsRoot),
                                  plan |-> VerifyPlan(inventoryTask, << >>)] >>
                /\ opc' = "batch"
    /\ UNCHANGED << overrides, cfgFile >>
    /\ UNCHANGED << vars, bvars >>

\* processBatch: task := prototype.Clone(); task.Preload(batch); the Run's
\* Gather and Verify on that task
RunCloneOnBatch ==
    /\ opc = "batch"
    /\ LET all == chunkFileMetas(gathers[1].gathered, DefaultBatchSize)
           k == Len(gathers)
       IN  IF k > Len(all)
           THEN opc' = "done" /\ UNCHANGED gathers
           ELSE LET task == GatherConfig(Preload(Clone(prototype, k + 1), all[k]),
                                         cfgFile)
                    gathered == TaskGather(task)
                IN  /\ gathers' = Append(gathers,
                                         [task |-> task, gathered |-> gathered,
                                          plan |-> VerifyPlan(task, gathered)])
                    /\ UNCHANGED opc
    /\ UNCHANGED << overrides, cfgFile >>
    /\ UNCHANGED << vars, bvars >>

OverrideNext ==
    \/ CliSetBaseDirectories \/ CliSetDryRun \/ GatherInventory \/ RunCloneOnBatch

OverrideSpec == OverrideInit /\ [][OverrideNext]_<< vars, bvars, ovars >>

\* ------------------------------------------------------------ properties
\* max(1, MaxAttempts), written out
AttemptCeiling == IF MaxAttempts > 1 THEN MaxAttempts ELSE 1

CallsOf(op) == { i \in DOMAIN calls : calls[i].op = op }
Count(op) == Cardinality(CallsOf(op))
Terminal == { "Returned", "Failed" }
Returned == pc \in Terminal /\ Len(result) = 1
LastCall == calls[Len(calls)]

\* Verify calls that returned accepted, rejected with guidance, and the
\* calls that are fatal to the Run
Accepts == { i \in CallsOf("Verify") : calls[i].ok /\ calls[i].err = NoErr }
GuidedRejections ==
    { i \in CallsOf("Verify") : ~calls[i].ok /\ calls[i].err = NoErr /\ calls[i].guided }
FatalVerifies ==
    { i \in CallsOf("Verify") : calls[i].err # NoErr \/ (~calls[i].ok /\ ~calls[i].guided) }
FailedCalls(op) == { i \in CallsOf(op) : calls[i].err # NoErr }

\* the blocks occur in s one after the other, from position start on
RECURSIVE InOrder(_, _, _)
InOrder(s, blocks, start) ==
    IF blocks = <<>> THEN TRUE
    ELSE LET b == Head(blocks)
         IN  \E i \in start..(Len(s) - Len(b) + 1) :
                /\ SubSeq(s, i, i + Len(b) - 1) = b
                /\ InOrder(s, Tail(blocks), i + Len(b))

\* C1: a Run issues at most max(1, MaxAttempts) calls to Client.Chat, for
\* every MaxAttempts (zero and negative values count as 1).
C1_ChatCallsBounded == Count("Chat") <= AttemptCeiling

C1_Witness ==
    /\ pc = "Failed"
    /\ MaxAttempts = MaxAttemptsBound
    /\ Count("Chat") = MaxAttemptsBound

\* C2: once Verify has returned accepted, every later call is the one Apply
\* call; the Run does not fail on its own, and when it has returned Apply was
\* called exactly once, with the output that Verify call returned.
C2_AcceptThenApplyOnce ==
    Accepts # {} =>
        LET k == CHOOSE i \in Accepts : \A j \in Accepts : i <= j
        IN  /\ \A j \in (k + 1)..Len(calls) : calls[j].op = "Apply"
            /\ Count("Apply") <= 1
            /\ pc # "Failed"
            /\ pc \in Terminal => /\ Count("Apply") = 1
                                  /\ applyArg = << acceptOut >>

C2_Witness ==
    /\ pc = "Returned"
    /\ Count("Verify") = 2
    /\ Accepts # {}
    /\ applyArg = << "v2" >>

\* C3: the prompt sent to Client.Chat on every attempt contains the refine
\* delta of every earlier rejected attempt, in chronological order.
C3_AllEarlierRefinesInPrompt ==
    \A k \in DOMAIN sent :
        k - 1 <= Len(deltas) =>
            InOrder(sent[k], [j \in 1..(k - 1) |-> TrimSpace(deltas[j])], 1)

\* C4: when Verify rejected with a refine request on every attempt up to
\* max(1, MaxAttempts), the Run has returned an error and Apply was not called.
C4_ExhaustedFails ==
    Cardinality(GuidedRejections) = AttemptCeiling =>
        /\ pc = "Failed"
        /\ Returned
        /\ result[1].err # NoErr
        /\ Count("Apply") = 0

C4_Witness ==
    /\ MaxAttempts = 2
    /\ Cardinality(GuidedRejections) = 2
    /\ pc = "Failed"

\* C5: a Verify call that returns an error (whatever else it returns) or that
\* rejects without a refine request is the last call of the Run: the Run has
\* returned an error and Apply was not called.
C5_FatalVerifyStops ==
    \A i \in FatalVerifies :
        /\ i = Len(calls)
        /\ pc = "Failed"
        /\ Returned
        /\ result[1].err # NoErr
        /\ Count("Apply") = 0

C5_Witness ==
    /\ FatalVerifies # {}
    /\ LastCall.err # NoErr /\ LastCall.ok /\ LastCall.guided
    /\ Count("Verify") < AttemptCeiling
    /\ pc = "Failed"

\* C6: Apply is called at most once, only after a Verify call of the Run
\* returned accepted, and never on a failing path (an error from Gather,
\* Prompt, Chat or Verify, a rejection without guidance, attempts exhausted).
C6_ApplyOnlyAfterAccept ==
    /\ Count("Apply") <= 1
    /\ \A a \in CallsOf("Apply") : \E i \in Accepts : i < a
    /\ pc = "Failed" => Count("Apply") = 0
    /\ (\/ \E op \in {"Gather", "Prompt", "Chat", "Verify"} : FailedCalls(op) # {}
        \/ FatalVerifies # {}
        \/ Cardinality(GuidedRejections) >= AttemptCeiling)
       => Count("Apply") = 0

C6_Witness ==
    /\ Count("Apply") = 1
    /\ Count("Verify") = 3
    /\ Cardinality(GuidedRejections) = 2

\* C7: Gather is the first call and is called once; when it returns an error
\* the Run returns an error and makes no other call.
C7_GatherOnceAndFatal ==
    /\ Count("Gather") <= 1
    /\ calls # <<>> => calls[1].op = "Gather"
    /\ pc \in Terminal => Count("Gather") = 1
    /\ FailedCalls("Gather") # {} =>
          /\ Len(calls) = 1
          /\ pc = "Failed"
          /\ Returned
          /\ result[1].err # NoErr

C7_Witness ==
    /\ FailedCalls("Gather") # {}
    /\ pc = "Failed"

\* C8: a Chat call that returns an error is the last call of the Run: no
\* Verify for that attempt, no further attempt, no Apply, and the Run has
\* returned an error.
C8_ChatErrorStops ==
    \A i \in FailedCalls("Chat") :
        /\ i = Len(calls)
        /\ pc = "Failed"
        /\ Returned
        /\ result[1].err # NoErr
        /\ Count("Apply") = 0

C8_Witness ==
    /\ FailedCalls("Chat") # {}
    /\ Count("Chat") = 2
    /\ Count("Chat") < AttemptCeiling
    /\ pc = "Failed"

\* C9: once Apply has been called the Run has returned exactly the pair
\* Apply returned, and Apply is the last call, also when it returned an error.
C9_ApplyResultVerbatim ==
    Count("Apply") >= 1 =>
        /\ Len(applyRet) = 1
        /\ result = << applyRet[1] >>
        /\ LastCall.op = "Apply"
        /\ Count("Apply") = 1
        /\ pc = "Returned"

C9_Witness ==
    /\ pc = "Returned"
    /\ Len(applyRet) = 1
    /\ applyRet[1].err # NoErr
    /\ applyRet[1].report # ZeroReport
    /\ result = applyRet

\* The transitions of the state machine as the specification lists them.
ListedTransitions ==
    { << "Gathering", "Prompting" >>, << "Gathering", "Failed" >>,
      << "Prompting", "Awaiting" >>,
      << "Awaiting", "Verifying" >>, << "Awaiting", "Failed" >>,
      << "Verifying", "Accepted" >>, << "Verifying", "Refining" >>,
      << "Verifying", "Failed" >>,
      << "Refining", "Prompting" >>,
      << "Accepted", "Applying" >>, << "Applying", "Returned" >> }

\* Refining is entered only while fewer than max(1, MaxAttempts) attempts
\* have been made.
RefiningOnlyWithAttemptsLeft ==
    (pc' = "Refining" /\ pc # "Refining") => Count("Chat") < AttemptCeiling

\* C10 as stated: a Run starts in Gathering and takes only the listed
\* transitions, Refining being entered only when attempts remain.
C10_OnlyListedTransitions ==
    /\ pc = "Gathering"
    /\ [][ /\ << pc, pc' >> \in ListedTransitions
           /\ RefiningOnlyWithAttemptsLeft ]_vars

\* C10 (amended): a Run starts in Gathering and takes only the listed
\* transitions and Prompting -> Failed (Prompt returned an error), Refining
\* being entered only when attempts remain.
C10_ListedOrPromptFailed ==
    /\ pc = "Gathering"
    /\ [][ /\ << pc, pc' >> \in ListedTransitions \cup { << "Prompting", "Failed" >> }
           /\ (pc = "Prompting" /\ pc' = "Failed") => calls'[Len(calls')].err # NoErr
           /\ RefiningOnlyWithAttemptsLeft ]_vars

C10_Witness ==
    /\ pc = "Failed"
    /\ LastCall.op = "Prompt"
    /\ Count("Prompt") = 2

\* ------------------------------------------- properties of the Batch Executor
BatchDone == bpc = "done" /\ Len(bresult) = 1
BatchSucceeded == BatchDone /\ bresult[1].err = NoBErr
BatchFailed == BatchDone /\ bresult[1].err # NoBErr
RunOk(e) == e.err = NoBErr
\* the error text quotes a truncated completion
RunLengthLimited(e) ==
    \E i \in DOMAIN e.err.text :
        e.err.text[i] \in {"\"finish_reason\": \"length\"", "\"finish_reason\":\"length\""}
Units(batch) == { batch[i] : i \in DOMAIN batch }
\* the Runs processBatch issued itself for the batch (not for its halves)
RunsOf(batch) == SelectSeq(runs, LAMBDA e : e.batch = batch)
\* the processBatch calls over the batch that have returned
ProcsOf(batch) == { k \in DOMAIN procs : procs[k].batch = batch }
FirstHalf(batch) == SubSeq(batch, 1, Len(batch) \div 2)
SecondHalf(batch) == SubSeq(batch, Len(batch) \div 2 + 1, Len(batch))
\* the batch was split: its first Run was length-limited and it has two units or more
WasSplit(batch) ==
    /\ Len(batch) > 1
    /\ Len(RunsOf(batch)) >= 1
    /\ RunLengthLimited(RunsOf(batch)[1])

\* C11: with batchSize = 1 and no failing Run, the i-th Run of RunBatches
\* gathers exactly unit i of the inventory, and a successful RunBatches has
\* issued exactly as many Runs as there are units.
C11_OneRunPerUnit ==
    (batchSize = 1 /\ \A i \in DOMAIN runs : RunOk(runs[i])) =>
        /\ Len(runs) <= Len(files)
        /\ \A i \in DOMAIN runs : runs[i].gathered = << files[i] >>
        /\ BatchSucceeded => Len(runs) = Len(files)

C11_Witness ==
    /\ batchSize = 1
    /\ Len(files) = 3
    /\ BatchSucceeded
    /\ Len(runs) = 3
    /\ \A i \in DOMAIN runs : RunOk(runs[i])

\* C12: when a batch of more than one unit failed length-limited and both
\* halves succeeded, processBatch returns for the batch a report whose
\* NumActions is the sum and whose DryRun is the conjunction of the halves'.
C12_SplitSumsHalves ==
    \A k \in DOMAIN procs :
        LET p == procs[k]
        IN  WasSplit(p.batch) =>
              \A l \in ProcsOf(FirstHalf(p.batch)), r \in ProcsOf(SecondHalf(p.batch)) :
                 (procs[l].err = NoBErr /\ procs[r].err = NoBErr) =>
                    /\ p.err = NoBErr
                    /\ p.report.NumActions =
                          procs[l].report.NumActions + procs[r].report.NumActions
                    /\ p.report.DryRun = (procs[l].report.DryRun /\ procs[r].report.DryRun)

C12_Witness ==
    \E k \in DOMAIN procs :
        /\ procs[k].batch = << 1, 2 >>
        /\ WasSplit(<< 1, 2 >>)
        /\ procs[k].err = NoBErr
        /\ procs[k].report.NumActions = 2
        /\ ~procs[k].report.DryRun
        /\ \E l \in ProcsOf(<< 1 >>) : procs[l].report.DryRun

\* the processBatch call failed after exhausting every fallback budget
FailedExhausted(e) ==
    /\ e.err # NoBErr
    /\ e.err.context # <<>>
    /\ e.err.context[Len(e.err.context)].Stage = << "final" >>

\* C13: when a split batch's halves together produced at least one
\* successful action, processBatch returns success for the batch with the
\* merged report, also when one half ultimately failed.
C13_PartialRecovery ==
    \A k \in DOMAIN procs :
        LET p == procs[k]
            halves == ProcsOf(FirstHalf(p.batch)) \cup ProcsOf(SecondHalf(p.batch))
        IN  (/\ WasSplit(p.batch)
             /\ \E h \in halves : procs[h].err = NoBErr /\ procs[h].report.NumActions > 0
             /\ \A h \in halves : procs[h].err # NoBErr => FailedExhausted(procs[h]))
            => p.err = NoBErr

\* C14: when a split batch's half has failed, processBatch re-runs the
\* unsplit batch with the fallback budgets instead of returning the half's
\* error.
C14_EscalatesAfterFailedHalves ==
    \A k \in DOMAIN procs :
        LET p == procs[k]
            halves == ProcsOf(FirstHalf(p.batch)) \cup ProcsOf(SecondHalf(p.batch))
        IN  (WasSplit(p.batch) /\ \E h \in halves : FailedExhausted(procs[h]))
            => /\ Len(RunsOf(p.batch)) >= 2
               /\ RunsOf(p.batch)[2].stage = 1
               /\ \A h \in halves : p.err # procs[h].err

\* The budgets of the escalation, in order.
EscalationBudgets == << 768, 1024, 1280, 1536, 1792 >>

\* C15: the Runs over a single-unit batch after its length-limited first
\* Run use the budgets 768, 1024, 1280, 1536, 1792 in that order on the same
\* unit, each on a clone no other Run used; each follows a length-limited
\* Run, and a Run that succeeds is the last one, its report being what
\* processBatch returns.
C15_SingleUnitEscalation ==
    \A u \in Units(files) :
        LET R == RunsOf(<< u >>)
        IN  /\ Len(R) <= 1 + Len(EscalationBudgets)
            /\ \A i \in 2..Len(R) :
                  /\ R[i].tokens = EscalationBudgets[i - 1]
                  /\ R[i].preloaded = << u >>
                  /\ R[i].gathered \in { << u >>, << >> }
                  /\ RunLengthLimited(R[i - 1])
                  /\ R[i].task # 0
                  /\ \A j \in DOMAIN runs : runs[j].task = R[i].task => runs[j] = R[i]
            /\ \A i \in DOMAIN R :
                  RunOk(R[i]) =>
                     /\ i = Len(R)
                     /\ \E k \in ProcsOf(<< u >>) :
                           procs[k].err = NoBErr /\ procs[k].report = R[i].report

C15_Witness ==
    \E u \in Units(files) :
        LET R == RunsOf(<< u >>)
        IN  /\ Len(R) = 4
            /\ RunOk(R[4])
            /\ R[4].tokens = 1280
            /\ \E k \in ProcsOf(<< u >>) : procs[k].report = R[4].report

\* C16: a single-unit batch whose Runs were length-limited at the first
\* budget and at the five fallback budgets gets no further Run: processBatch
\* has returned an error whose diagnostic lists that unit alone, no Run
\* follows, and RunBatches, once returned, has returned an error.
C16_SingleUnitExhausted ==
    \A u \in Units(files) :
        LET R == RunsOf(<< u >>)
        IN  /\ Len(R) <= 6
            /\ (Len(R) = 6 /\ \A i \in DOMAIN R : RunLengthLimited(R[i])) =>
                  /\ runs[Len(runs)] = R[6]
                  /\ \E k \in ProcsOf(<< u >>) :
                        /\ procs[k].err # NoBErr
                        /\ procs[k].err.context # <<>>
                        /\ \A c \in DOMAIN procs[k].err.context :
                              procs[k].err.context[c].Files = << u >>
                  /\ bpc = "done" => BatchFailed
                  /\ bpc # "loop"

C16_Witness ==
    /\ BatchFailed
    /\ \E u \in Units(files) :
          /\ Len(RunsOf(<< u >>)) = 6
          /\ \A i \in 1..6 : RunLengthLimited(RunsOf(<< u >>)[i])

\* the failure of the Run is not one of a truncated completion
RunFatal(e) == e.err # NoBErr /\ ~RunLengthLimited(e)

\* C17: after a Run that failed otherwise than length-limited, at the first
\* budget or at a fallback budget, no Run is issued over that batch or any
\* part of it (no split, no further budget), and processBatch has returned
\* that Run's error for the batch.
C17_OtherFailureFatal ==
    \A i \in DOMAIN runs :
        RunFatal(runs[i]) =>
            /\ \A j \in DOMAIN runs :
                  j > i => ~(Units(runs[j].batch) \subseteq Units(runs[i].batch))
            /\ \E k \in ProcsOf(runs[i].batch) :
                  /\ procs[k].err # NoBErr
                  /\ Len(procs[k].err.text) >= Len(runs[i].err.text)
                  /\ SubSeq(procs[k].err.text, 1, Len(runs[i].err.text)) = runs[i].err.text
                  /\ procs[k].report = [DryRun |-> FALSE, Summary |-> <<>>, NumActions |-> 0]

\* the left half of a split two-unit batch failed fatally at its second
\* fallback budget, and RunBatches has returned
C17_Witness ==
    /\ BatchFailed
    /\ \E i \in DOMAIN runs :
          /\ RunFatal(runs[i])
          /\ runs[i].stage = 2
          /\ runs[i].depth = 2
          /\ i = Len(runs)

\* the processBatch calls RunBatches made itself, in the order of their return
TopProcs == SelectSeq(procs, LAMBDA p : p.depth = 1)

\* C18: once processBatch has returned an error for top-level batch k, no
\* Run is issued for a later batch, and what RunBatches returns is the zero
\* report and that error behind the prefix "batch k: ", k counted from 1.
C18_BatchFailureAborts ==
    \A i \in DOMAIN TopProcs :
        LET p == TopProcs[i]
        IN  p.err # NoBErr =>
              /\ p.batch = batches[p.top]
              /\ \A j \in DOMAIN runs : runs[j].top <= p.top
              /\ i = Len(TopProcs)
              /\ bpc \in {"process", "done"}
              /\ bpc = "process" => stack = <<>> /\ ret # <<>>
              /\ bpc = "done" =>
                    /\ BatchFailed
                    /\ bresult[1].report = [DryRun |-> FALSE, Summary |-> <<>>, NumActions |-> 0]
                    /\ bresult[1].err.text = << "batch ", ToString(p.top), ": " >> \o p.err.text
                    /\ bresult[1].err.context = p.err.context

\* the second of three batches failed and RunBatches has returned
C18_Witness ==
    /\ BatchDone
    /\ Len(batches) = 3
    /\ Len(TopProcs) = 2
    /\ TopProcs[1].err = NoBErr
    /\ TopProcs[2].err # NoBErr
    /\ TopProcs[2].top = 2
    /\ bresult[1].err.text[2] = "2"

RECURSIVE SumActions(_)
SumActions(ps) ==
    IF ps = <<>> THEN 0
    ELSE ps[1].report.NumActions + SumActions(SubSeq(ps, 2, Len(ps)))

\* C19: a RunBatches that succeeded over one batch or more returns the sum
\* of the NumActions of the reports its batches returned, and a DryRun flag
\* that is set exactly when every one of those reports has it set.
C19_AggregateReport ==
    (BatchSucceeded /\ Len(batches) >= 1) =>
        /\ Len(TopProcs) = Len(batches)
        /\ \A i \in DOMAIN TopProcs :
              TopProcs[i].err = NoBErr /\ TopProcs[i].batch = batches[i]
        /\ bresult[1].report.NumActions = SumActions(TopProcs)
        /\ bresult[1].report.DryRun = (\A i \in DOMAIN TopProcs : TopProcs[i].report.DryRun)

\* two batches, the first of two units split in halves, the flags differing
C19_Witness ==
    /\ BatchSucceeded
    /\ Len(TopProcs) = 2
    /\ ~TopProcs[1].report.DryRun
    /\ TopProcs[2].report.DryRun
    /\ TopProcs[1].report.NumActions = 2
    /\ bresult[1].report.NumActions = 3
    /\ ~bresult[1].report.DryRun

\* the place of a unit in the inventory
InventoryPlace(u) == CHOOSE p \in DOMAIN files : files[p] = u
\* every unit of the one batch stands before every unit of the other
BatchBefore(a, b) ==
    \A u \in Units(a), v \in Units(b) : InventoryPlace(u) < InventoryPlace(v)

C21_SplitShrinks ==
    \A d \in 2..Len(stack) :
        LET parent == stack[d - 1]
            child == stack[d]
            n == Len(parent.batch)
            m == Len(child.batch)
        IN  /\ m >= 1
            /\ m < n
            /\ n > 1
            /\ parent.stage \in {"left", "right"}
            /\ parent.stage = "left" => child.batch = SubSeq(parent.batch, 1, m)
            /\ parent.stage = "right" =>
                  /\ child.batch = SubSeq(parent.batch, n - m + 1, n)
                  /\ \E k \in DOMAIN procs :
                        /\ procs[k].depth = d
                        /\ procs[k].err = NoBErr
                        /\ procs[k].batch \o child.batch = parent.batch
                  /\ Units(SubSeq(parent.batch, 1, n - m)) \cap Units(child.batch) = {}

\* the right half of a three-unit batch was split in its turn
C21_Witness ==
    /\ Len(stack) = 3
    /\ stack[1].batch = << 1, 2, 3 >>
    /\ stack[1].stage = "right"
    /\ stack[2].batch = << 2, 3 >>
    /\ stack[2].stage = "right"
    /\ stack[3].batch = << 3 >>

\* C22: every clone that gathers for RunBatches works with the prototype's
\* overrides: its downloads root and the files it gathers, the staging root
\* of its planned moves, and the dry-run flag of its plan are the overridden
\* ones wherever the prototype has an override set.
C22_OverridesInEveryRun ==
    \A i \in DOMAIN gathers :
        LET g == gathers[i]
        IN  /\ overrides.downloads # << >> =>
                  /\ g.task.downloadsRoot = overrides.downloads
                  /\ \A f \in DOMAIN g.gathered : g.gathered[f].root = overrides.downloads
            /\ overrides.staging # << >> =>
                  /\ g.task.stagingRoot = overrides.staging
                  /\ \A a \in DOMAIN g.plan.Actions :
                        g.plan.Actions[a].ToRoot = overrides.staging
            /\ ~overrides.dry.isNil =>
                  /\ g.task.currentDryRun = overrides.dry.value
                  /\ g.plan.DryRun = overrides.dry.value

\* the batches one after the other
RECURSIVE Flatten(_)
Flatten(bs) == IF bs = <<>> THEN <<>> ELSE bs[1] \o Flatten(SubSeq(bs, 2, Len(bs)))
\* the least c with c * d >= n
CeilDiv(n, d) == (n + d - 1) \div d
\* the sizes chunkFileMetas is asked for
ChunkSizes == -1..(MaxUnits + 1)

\* C23: for the inventory and every size, a size of 0 or less counting as
\* 1, chunkFileMetas returns ceil(N/size) batches, none empty and none
\* longer than size, which one after the other are the inventory.
C23_ChunksPartition ==
    \A size \in ChunkSizes :
        LET eff == IF size <= 0 THEN 1 ELSE size
            bs == chunkFileMetas(files, size)
        IN  /\ Len(bs) = CeilDiv(Len(files), eff)
            /\ \A i \in DOMAIN bs : Len(bs[i]) >= 1 /\ Len(bs[i]) <= eff
            /\ Flatten(bs) = files

\* RunBatches holds three units in batches of two: a full and a short batch
C23_Witness ==
    /\ Len(files) = 3
    /\ batchSize = 2
    /\ batches = << << 1, 2 >>, << 3 >> >>
    /\ batches = chunkFileMetas(files, batchSize)

\* C24: every Run of a batch after its first has a token budget greater than
\* the budget of the Run of that batch just before it.
C24_BudgetStrictlyGrows ==
    \A j \in DOMAIN runs :
        LET R == RunsOf(runs[j].batch)
        IN  \A i \in 2..Len(R) : R[i].tokens > R[i - 1].tokens

\* the Run failed because Verify rejected the response on every attempt,
\* with the tag of a response that is not valid JSON
RunRejectedTruncated(e) ==
    /\ e.err # NoBErr
    /\ e.err.text[1] = "exhausted attempts without acceptance"
    /\ \E i \in DOMAIN e.err.text : e.err.text[i] = "invalid-json"

\* C25: a Run that failed by such rejections is not what fails its batch:
\* processBatch does not return that Run's error from the stage of the Run,
\* it goes on to split or escalate as after a length-limited Run.
C25_RejectionTreatedAsLength ==
    \A i \in DOMAIN runs :
        RunRejectedTruncated(runs[i]) =>
            ~ \E k \in ProcsOf(runs[i].batch) :
                  /\ procs[k].err.context # <<>>
                  /\ procs[k].err.context[1].Stage # << "final" >>
                  /\ Len(procs[k].err.text) >= Len(runs[i].err.text)
                  /\ SubSeq(procs[k].err.text, 1, Len(runs[i].err.text)) = runs[i].err.text

\* the Runs that handed the unit to Apply
AppliedIn(u) == { i \in DOMAIN runs : u \in Units(runs[i].applied) }

\* C26: no unit of the inventory is handed to Apply by more than one Run of
\* the RunBatches call, whatever the batches, splits and escalations.
C26_AppliedAtMostOnce ==
    \A u \in Units(files) : Cardinality(AppliedIn(u)) <= 1

\* a three-unit batch was split twice and the last unit escalated, and every
\* unit was handed to Apply
C26_Witness ==
    /\ BatchSucceeded
    /\ Len(files) = 3
    /\ Len(RunsOf(<< 1, 2, 3 >>)) = 1
    /\ Len(RunsOf(<< 2, 3 >>)) = 1
    /\ Len(RunsOf(<< 3 >>)) = 2
    /\ \A u \in Units(files) : Cardinality(AppliedIn(u)) = 1

\* C27: when RunBatches has returned success, every unit of the inventory
\* is in the batch of a Run that succeeded and handed it to Apply, and the
\* returned count is the number of units.
C27_SuccessCoversEveryUnit ==
    BatchSucceeded =>
        /\ \A u \in Units(files) :
              \E i \in DOMAIN runs : RunOk(runs[i]) /\ u \in Units(runs[i].applied)
        /\ bresult[1].report.NumActions = Len(files)

\* three units in batches of two, the first batch split after a
\* length-limited Run, its second unit escalated
C27_Witness ==
    /\ BatchSucceeded
    /\ batches = << << 1, 2 >>, << 3 >> >>
    /\ Len(RunsOf(<< 1, 2 >>)) = 1
    /\ Len(RunsOf(<< 2 >>)) = 3
    /\ bresult[1].report.NumActions = 3

\* the units the successful Runs so far handed to Apply
AppliedUnits ==
    { u \in Units(files) : \E i \in DOMAIN runs : RunOk(runs[i]) /\ u \in Units(runs[i].applied) }

\* C28: a failure returns the zero report whatever was applied before it:
\* every processBatch call that returned an error, and a RunBatches that
\* returned one, returned a report of 0 actions, while the Runs that
\* succeeded earlier in the call stay applied (nothing runs after the failure).
C28_FailureKeepsEarlierEffects ==
    /\ \A k \in DOMAIN procs :
          procs[k].err # NoBErr =>
              procs[k].report = [DryRun |-> FALSE, Summary |-> <<>>, NumActions |-> 0]
    /\ BatchFailed =>
          /\ bresult[1].report = [DryRun |-> FALSE, Summary |-> <<>>, NumActions |-> 0]
          /\ stack = <<>>
          /\ totalActions <= Cardinality(AppliedUnits)

\* the left halves of a three-unit batch and of its right half were applied
\* for real when the last unit failed: RunBatches returned an error and 0
\* actions
C28_Witness ==
    /\ BatchFailed
    /\ batches = << << 1, 2, 3 >> >>
    /\ AppliedUnits = { 1, 2 }
    /\ \A i \in DOMAIN runs : RunOk(runs[i]) => ~runs[i].report.DryRun
    /\ totalActions = 0
    /\ bresult[1].report.NumActions = 0
    /\ bresult[1].err.text[2] = "1"

\* T(1) = 6, T(n) = 1 + T(floor(n/2)) + T(ceil(n/2)) + 5
RECURSIVE RunBound(_)
RunBound(n) ==
    IF n <= 1 THEN 6
    ELSE 1 + RunBound(n \div 2) + RunBound(n - n \div 2) + 5
\* ceil(log2 n)
RECURSIVE CeilLog2(_)
CeilLog2(n) == IF n <= 1 THEN 0 ELSE 1 + CeilLog2((n + 1) \div 2)

\* the Runs issued for top-level batch k stay within T of its size, and the
\* splits nested in one another within ceil(log2) of it
RunsWithinBound ==
    /\ \A k \in DOMAIN batches :
          Cardinality({ i \in DOMAIN runs : runs[i].top = k }) <= RunBound(Len(batches[k]))
    /\ stack # <<>> => Len(stack) - 1 <= CeilLog2(Len(stack[1].batch))

\* C29: RunBatches returns in the end, and at every moment the Runs of a
\* batch of n units number T(n) at most and its nested splits ceil(log2 n)
\* at most.
C29_TerminatesWithinBound == []RunsWithinBound /\ <>BatchDone

\* a three-unit batch came to an end after ten Runs, two splits deep, its
\* last unit having used up its six Runs
C29_Witness ==
    /\ BatchDone
    /\ batches = << << 1, 2, 3 >> >>
    /\ Len(runs) = 10
    /\ Len(RunsOf(<< 3 >>)) = RunBound(1)
    /\ \E i \in DOMAIN runs : runs[i].depth - 1 = CeilLog2(3)

\* C30: when the first Run of a batch and its Runs at all five fallback
\* budgets were length-limited, processBatch has returned the error of the
\* first Run followed by one diagnostic, whose stage is "final", whose
\* request is the one of the first Run (its budget), and whose files are the
\* units of the batch.
C30_FinalErrorFromInitialRun ==
    \A j \in DOMAIN runs :
        LET b == runs[j].batch
            R == RunsOf(b)
        IN  (Len(R) = 6 /\ \A i \in DOMAIN R : RunLengthLimited(R[i])) =>
                \E k \in ProcsOf(b) :
                    /\ procs[k].err.text = R[1].err.text \o << "; context=" >>
                    /\ procs[k].err.context =
                          << [Stage |-> << "final" >>, MaxTokens |-> R[1].tokens,
                              Files |-> b] >>
                    /\ procs[k].report.NumActions = 0

\* a prototype of 512 tokens: the diagnostic names 512, the last Run had 1792
C30_Witness ==
    /\ protoTokens = 512
    /\ \E k \in DOMAIN procs :
          /\ procs[k].err.context # <<>>
          /\ procs[k].err.context[1].Stage = << "final" >>
          /\ procs[k].err.context[1].MaxTokens = 512
          /\ procs[k].err.context[1].Files = << 2 >>
          /\ procs[k].batch = << 2 >>
          /\ RunsOf(<< 2 >>)[6].tokens = 1792
====
